---------------------------- MODULE Spec2Model ----------------------------
(***************************************************************************)
(* A model of updateDecodeTest.py: the script that scans                   *)
(* tests/Mbta/DecodeTest.elm for URL literals, fetches each URL and puts   *)
(* the fetched body in place of the cached one.                            *)
(*                                                                         *)
(* Text is a sequence of one-character strings.  The file on disk is one   *)
(* flat text; readline() cuts it at newlines, writelines() concatenates.   *)
(***************************************************************************)
EXTENDS Integers, Sequences, FiniteSets, TLC

SP == " "
DQ == "\""
BS == "\\"
NL == "\n"
QM == "?"
AMP == "&"

(* ------------------------------ bounds --------------------------------- *)
\* lines of arbitrary content in the input file
MaxTail == 4
\* length of the url given to addApiKey on its own
MaxUrl == 4
\* length of the body given to the escaping step on its own
MaxEsc == 4

(* -------------------------- program constants -------------------------- *)
IndentWidth == 16
UrlStart == 17
UrlTail == 2
NotFound == 404

(* ------------------------------ strings -------------------------------- *)
\* " " * n
Spaces(n) == [i \in 1..n |-> SP]

Indent == Spaces(IndentWidth)

\* " " * 16 + "\"\"\"\n"
Delim == Indent \o <<DQ, DQ, DQ, NL>>

\* " " * 16 + "\"http"
UrlPrefix == Indent \o <<DQ, "h", "t", "t", "p">>

\* "api_key="
ApiKeyParam == <<"a", "p", "i", "_", "k", "e", "y", "=">>

\* str.startswith
StartsWith(s, p) == Len(s) >= Len(p) /\ SubSeq(s, 1, Len(p)) = p

\* str.endswith
EndsWith(s, p) == Len(s) >= Len(p) /\ SubSeq(s, Len(s) - Len(p) + 1, Len(s)) = p

\* c in s
Contains(s, c) == \E i \in 1..Len(s) : s[i] = c

\* every text over the characters cs of length at most n
TextsUpTo(cs, n) == UNION {[1..k -> cs] : k \in 0..n}

\* the concatenation of a list of texts
RECURSIVE Flatten(_)
Flatten(ls) == IF ls = <<>> THEN <<>> ELSE Head(ls) \o Flatten(Tail(ls))

(* ----------------------------- addApiKey ------------------------------- *)
\* the key is [none |-> TRUE] for None, else [none |-> FALSE, text |-> k]
NoKey == [none |-> TRUE, text |-> <<>>]
Key(k) == [none |-> FALSE, text |-> k]

\* addApiKey without the test of line 17: "&" whenever the url holds a "?"
addApiKeyNoEndsWith(key, u) ==
    IF ~key.none
    THEN IF Contains(u, QM)
         THEN u \o <<AMP>> \o ApiKeyParam \o key.text
         ELSE u \o <<QM>> \o ApiKeyParam \o key.text
    ELSE u

addApiKey(key, u) ==
    IF ~key.none
    THEN IF Contains(u, QM)
         THEN IF EndsWith(u, <<QM>>)
              THEN u \o ApiKeyParam \o key.text
              ELSE u \o <<AMP>> \o ApiKeyParam \o key.text
         ELSE u \o <<QM>> \o ApiKeyParam \o key.text
    ELSE u

(* ------------------------------ escaping ------------------------------- *)
\* replace with a count of 1: only the first backslash is doubled
ReplaceFirst(s) ==
    IF Contains(s, BS)
    THEN LET i == CHOOSE j \in 1..Len(s) :
                      s[j] = BS /\ \A h \in 1..(j - 1) : s[h] # BS
         IN  SubSeq(s, 1, i) \o <<BS>> \o SubSeq(s, i + 1, Len(s))
    ELSE s

\* newData.replace("\\", "\\\\")
RECURSIVE Replace(_)
Replace(s) ==
    IF s = <<>> THEN <<>>
    ELSE IF Head(s) = BS THEN <<BS, BS>> \o Replace(Tail(s))
    ELSE <<Head(s)>> \o Replace(Tail(s))

(* ------------------------------ readline ------------------------------- *)
\* index of the last character of the line that starts at index i
RECURSIVE LineEnd(_, _)
LineEnd(c, i) ==
    IF i > Len(c) THEN Len(c)
    ELSE IF c[i] = NL THEN i
    ELSE LineEnd(c, i + 1)

\* file.readline() with p characters already consumed; "" at end of file
ReadLine(c, p) == SubSeq(c, p + 1, LineEnd(c, p + 1))

(* ------------------------------- state --------------------------------- *)
VARIABLES
    disk,       \* content of tests/Mbta/DecodeTest.elm
    orig,       \* content of the file when the script started
    apiKey,     \* sys.argv[1] or None
    file,       \* the handle: "r", "w" or "closed"
    pos,        \* characters consumed through the read handle
    newLines,   \* the output buffer
    url,        \* line[17:-2] of the current block
    newData,    \* what fetch returned for the current block
    pc,         \* position in the script
    error,      \* the uncaught exception, "none" while there is none
    log,        \* the requests made so far, each with its response
    writeOpens, \* how many times the file was opened for writing
    ret         \* what a function that is run on its own returned: the url of
                \* addApiKey, the successive texts of the escaping

vars == <<disk, orig, apiKey, file, pos, newLines, url, newData, pc, error,
          log, writeOpens, ret>>

None == [none |-> TRUE, text |-> <<>>]
Body(b) == [none |-> FALSE, text |-> b]

\* Python truth of fetch's result: None and "" are both false
Truthy(d) == ~d.none /\ d.text # <<>>

\* the data line without the test of line 67: always the fetched text
DataEntryAlways(d, oldData) == Indent \o Replace(d.text) \o <<NL>>

\* what the data line of a block becomes (lines 67-71)
DataEntry(d, oldData) ==
    IF Truthy(d) THEN Indent \o Replace(d.text) \o <<NL>> ELSE oldData

\* line.startswith(" " * 16 + "\"http")
IsUrlLine(line) == StartsWith(line, UrlPrefix)

\* line[17:-1]: the closing quote stays in the url
UrlOfKeepQuote(line) == SubSeq(line, UrlStart + 1, Len(line) - 1)

\* line[17:-2]
UrlOf(line) == SubSeq(line, UrlStart + 1, Len(line) - UrlTail)

\* a delimiter test that ignores what follows the three quotes
AssertDelimPrefix(quotes) == StartsWith(quotes, Indent \o <<DQ, DQ, DQ>>)

\* the assert on a delimiter line passes
AssertDelim(quotes) == quotes = Delim

\* an except clause that swallows every HTTPError
SwallowedAll(r) == r.exc = "HTTPError"

\* an except clause that swallows none
SwallowedNone(r) == FALSE

\* lines 34-37: the except clause catches an HTTPError and swallows a 404
Swallowed(r) == r.exc = "HTTPError" /\ r.code = NotFound

(* ------------------------------ the input ------------------------------ *)
UrlLineA == Indent \o <<DQ, "h", "t", "t", "p", "a", DQ, NL>>
UrlLineB == Indent \o <<DQ, "h", "t", "t", "p", QM, "b", DQ, NL>>
OldLine == Indent \o <<"o", BS, BS, NL>>

\* the lines the arbitrary part of the file is made of
LinePool == {UrlLineB, Delim, OldLine}

\* a well-formed Fixture Block
GoodBlock == UrlLineA \o Delim \o OldLine \o Delim

\* the file's last line may lack its newline
Chop(c) == IF c # <<>> /\ c[Len(c)] = NL THEN SubSeq(c, 1, Len(c) - 1) ELSE c

\* the input files: up to MaxTail arbitrary lines, alone or after a well-formed
\* block, with or without the last newline
Inputs ==
    LET whole == {lead \o Flatten(t) :
                     lead \in {<<>>, GoodBlock}, t \in TextsUpTo(LinePool, MaxTail)}
    IN  whole \cup {Chop(c) : c \in whole}

ApiKeys == {NoKey, Key(<<"k">>)}

\* how urlopen(url).read().decode("utf-8") may end: with a body, with an
\* HTTPError that carries a status code, or with another exception (URLError
\* stands for all of them)
Bodies == {<<>>, <<"a", BS, NL, "b">>}
ErrorCodes == {NotFound, NotFound + 96}
Responses ==
    {[raised |-> FALSE, exc |-> "", code |-> 0, body |-> b] : b \in Bodies}
    \cup {[raised |-> TRUE, exc |-> "HTTPError", code |-> c, body |-> <<>>] :
             c \in ErrorCodes}
    \cup {[raised |-> TRUE, exc |-> "URLError", code |-> 0, body |-> <<>>]}

(* ------------------------------ the script ----------------------------- *)
Init ==
    /\ disk \in Inputs
    /\ orig = disk
    /\ apiKey \in ApiKeys
    /\ file = "r"
    /\ pos = 0
    /\ newLines = <<>>
    /\ url = <<>>
    /\ newData = None
    /\ pc = "scan"
    /\ error = "none"
    /\ log = <<>>
    /\ writeOpens = 0
    /\ ret = <<>>

\* lines 49-50 and 57-59: read a line at top level
Scan ==
    /\ pc = "scan"
    /\ LET line == ReadLine(disk, pos) IN
         IF line = <<>>
         THEN /\ pc' = "eof"
              /\ UNCHANGED <<pos, newLines, url>>
         ELSE /\ pos' = pos + Len(line)
              /\ newLines' = Append(newLines, line)
              /\ IF IsUrlLine(line)
                 THEN url' = UrlOf(line) /\ pc' = "fetch"
                 ELSE url' = url /\ pc' = "scan"
    /\ UNCHANGED <<disk, orig, apiKey, file, newData, error, log, writeOpens, ret>>

\* line 60 with lines 29-39: one blocking request and its outcome
Fetch ==
    /\ pc = "fetch"
    /\ \E r \in Responses :
         /\ log' = Append(log, [url |-> addApiKey(apiKey, url),
                                at |-> Len(newLines),
                                raised |-> r.raised, exc |-> r.exc,
                                code |-> r.code, body |-> r.body])
         /\ IF ~r.raised
            THEN newData' = Body(r.body) /\ pc' = "open" /\ error' = error
            ELSE IF Swallowed(r)
            THEN newData' = None /\ pc' = "open" /\ error' = error
            ELSE newData' = newData /\ pc' = "aborted" /\ error' = r.exc
    /\ UNCHANGED <<disk, orig, apiKey, file, pos, newLines, url, writeOpens, ret>>

\* lines 62-63 without line 64: the opening delimiter is not put in the buffer
OpenQuotesNoAppend ==
    /\ pc = "open"
    /\ LET quotes == ReadLine(disk, pos) IN
         /\ pos' = pos + Len(quotes)
         /\ IF AssertDelim(quotes)
            THEN pc' = "data" /\ error' = error
            ELSE pc' = "aborted" /\ error' = "AssertionError"
    /\ UNCHANGED <<disk, orig, apiKey, file, newLines, url, newData, log,
                   writeOpens, ret>>

\* lines 62-64: the opening delimiter
OpenQuotes ==
    /\ pc = "open"
    /\ LET quotes == ReadLine(disk, pos) IN
         /\ pos' = pos + Len(quotes)
         /\ IF AssertDelim(quotes)
            THEN newLines' = Append(newLines, quotes) /\ pc' = "data"
                 /\ error' = error
            ELSE newLines' = newLines /\ pc' = "aborted"
                 /\ error' = "AssertionError"
    /\ UNCHANGED <<disk, orig, apiKey, file, url, newData, log, writeOpens, ret>>

\* lines 66-71: the data line
Data ==
    /\ pc = "data"
    /\ LET oldData == ReadLine(disk, pos) IN
         /\ pos' = pos + Len(oldData)
         /\ newLines' = Append(newLines, DataEntry(newData, oldData))
    /\ pc' = "close"
    /\ UNCHANGED <<disk, orig, apiKey, file, url, newData, error, log, writeOpens, ret>>

\* lines 73-75: the closing delimiter
CloseQuotes ==
    /\ pc = "close"
    /\ LET quotes == ReadLine(disk, pos) IN
         /\ pos' = pos + Len(quotes)
         /\ IF AssertDelim(quotes)
            THEN newLines' = Append(newLines, quotes) /\ pc' = "scan"
                 /\ error' = error
            ELSE newLines' = newLines /\ pc' = "aborted"
                 /\ error' = "AssertionError"
    /\ UNCHANGED <<disk, orig, apiKey, file, url, newData, log, writeOpens, ret>>

\* line 52: file.close() of the read handle
CloseRead ==
    /\ pc = "eof"
    /\ file' = "closed"
    /\ pc' = "reopen"
    /\ UNCHANGED <<disk, orig, apiKey, pos, newLines, url, newData, error, log,
                   writeOpens, ret>>

\* line 53: open(filename, "w") truncates the file
OpenWrite ==
    /\ pc = "reopen"
    /\ file' = "w"
    /\ disk' = <<>>
    /\ writeOpens' = writeOpens + 1
    /\ pc' = "write"
    /\ UNCHANGED <<orig, apiKey, pos, newLines, url, newData, error, log, ret>>

\* line 54: file.writelines(newLines)
WriteLines ==
    /\ pc = "write"
    /\ disk' = disk \o Flatten(newLines)
    /\ pc' = "written"
    /\ UNCHANGED <<orig, apiKey, file, pos, newLines, url, newData, error, log,
                   writeOpens, ret>>

\* lines 55-56: file.close() and exit()
CloseWrite ==
    /\ pc = "written"
    /\ file' = "closed"
    /\ pc' = "exited"
    /\ UNCHANGED <<disk, orig, apiKey, pos, newLines, url, newData, error, log,
                   writeOpens, ret>>

Next ==
    \/ Scan
    \/ Fetch
    \/ OpenQuotes
    \/ Data
    \/ CloseQuotes
    \/ CloseRead
    \/ OpenWrite
    \/ WriteLines
    \/ CloseWrite

Spec == Init /\ [][Next]_vars

\* the interpreter runs the script's next statement whenever there is one
FairSpec == Spec /\ WF_vars(Next)

(* -------------------------- addApiKey on its own ----------------------- *)
UrlChars == {"h", QM, AMP}
KeyInputs == {NoKey, Key(<<>>), Key(<<"k">>)}

InitKey ==
    /\ url \in TextsUpTo(UrlChars, MaxUrl)
    /\ apiKey \in KeyInputs
    /\ pc = "key"
    /\ ret = <<>>
    /\ disk = <<>> /\ orig = <<>> /\ file = "closed" /\ pos = 0
    /\ newLines = <<>> /\ newData = None /\ error = "none" /\ log = <<>>
    /\ writeOpens = 0

\* lines 14-24: one call addApiKey(apiKey, url)
CallAddApiKey ==
    /\ pc = "key"
    /\ ret' = addApiKey(apiKey, url)
    /\ pc' = "keyed"
    /\ UNCHANGED <<disk, orig, apiKey, file, pos, newLines, url, newData, error,
                   log, writeOpens>>

KeySpec == InitKey /\ [][CallAddApiKey]_vars

(* ------------------------ the escaping on its own ---------------------- *)
EscChars == {"a", BS, DQ}

InitEscape ==
    /\ newData \in {Body(b) : b \in TextsUpTo(EscChars, MaxEsc)}
    /\ pc = "escape"
    /\ ret = <<>>
    /\ disk = <<>> /\ orig = <<>> /\ apiKey = NoKey /\ file = "closed" /\ pos = 0
    /\ newLines = <<>> /\ url = <<>> /\ error = "none" /\ log = <<>>
    /\ writeOpens = 0

\* line 68 applied to the fetched body
EscapeOnce ==
    /\ pc = "escape"
    /\ ret' = <<Replace(newData.text)>>
    /\ pc' = "escaped"
    /\ UNCHANGED <<disk, orig, apiKey, file, pos, newLines, url, newData, error,
                   log, writeOpens>>

\* line 68 applied to its own result
EscapeAgain ==
    /\ pc = "escaped"
    /\ ret' = Append(ret, Replace(ret[1]))
    /\ pc' = "escaped twice"
    /\ UNCHANGED <<disk, orig, apiKey, file, pos, newLines, url, newData, error,
                   log, writeOpens>>

NextEscape == EscapeOnce \/ EscapeAgain

EscapeSpec == InitEscape /\ [][NextEscape]_vars

(* ======================= properties: addApiKey ========================= *)
\* "?api_key=", "&api_key=" and "api_key=" written out
QParam == <<"?", "a", "p", "i", "_", "k", "e", "y", "=">>
AParam == <<"&", "a", "p", "i", "_", "k", "e", "y", "=">>
PParam == <<"a", "p", "i", "_", "k", "e", "y", "=">>

HasQM(u) == \E i \in 1..Len(u) : u[i] = "?"
EndsQM(u) == u # <<>> /\ u[Len(u)] = "?"

\* C5: addApiKey(key, url) is url when no key is configured, url + "?api_key=" +
\* key when url holds no "?", url + "&api_key=" + key when url holds a "?" and
\* does not end with one, url + "api_key=" + key when url ends with "?".
C5_AddApiKeyCases ==
    pc = "keyed" =>
        /\ apiKey.none => ret = url
        /\ (~apiKey.none /\ ~HasQM(url)) => ret = url \o QParam \o apiKey.text
        /\ (~apiKey.none /\ HasQM(url) /\ ~EndsQM(url))
              => ret = url \o AParam \o apiKey.text
        /\ (~apiKey.none /\ EndsQM(url)) => ret = url \o PParam \o apiKey.text

C5_Witness ==
    /\ pc = "keyed" /\ ~apiKey.none /\ apiKey.text # <<>>
    /\ Len(url) = MaxUrl /\ EndsQM(url) /\ ret = url \o PParam \o apiKey.text

\* C6: with a key configured, the text appended by addApiKey never puts a "?"
\* directly after a "?" that ends the url, nor an "&" directly after an "&" or
\* a "?" that ends the url.
C6_NoDuplicateSeparator ==
    (pc = "keyed" /\ ~apiKey.none /\ url # <<>>) =>
        LET last == url[Len(url)]
            next == ret[Len(url) + 1]
        IN  /\ ~(last = "?" /\ next = "?")
            /\ ~(last \in {"&", "?"} /\ next = "&")

(* ======================= properties: the escaping ====================== *)
RECURSIVE Count(_, _)
Count(s, c) ==
    IF s = <<>> THEN 0
    ELSE (IF Head(s) = c THEN 1 ELSE 0) + Count(Tail(s), c)

\* s with one backslash of every pair of adjacent backslashes taken out
RECURSIVE Halve(_)
Halve(s) ==
    IF s = <<>> THEN <<>>
    ELSE IF Len(s) >= 2 /\ s[1] = "\\" /\ s[2] = "\\"
         THEN <<"\\">> \o Halve(SubSeq(s, 3, Len(s)))
         ELSE <<s[1]>> \o Halve(Tail(s))

\* C7: the escaping maps a text with n backslashes to one with 2n backslashes,
\* keeps every other character and the order of the characters, and escaping
\* twice equals escaping once exactly when the text holds no backslash.
C7_EscapeDoubles ==
    /\ pc \in {"escaped", "escaped twice"} =>
         /\ Count(ret[1], "\\") = 2 * Count(newData.text, "\\")
         /\ Len(ret[1]) = Len(newData.text) + Count(newData.text, "\\")
         /\ Halve(ret[1]) = newData.text
    /\ pc = "escaped twice" =>
         (ret[2] = ret[1] <=> Count(newData.text, "\\") = 0)

C7_Witness ==
    /\ pc = "escaped twice"
    /\ Len(newData.text) = MaxEsc
    /\ Count(newData.text, "\\") = 2
    /\ Count(ret[1], "\\") = 4
    /\ ret[2] # ret[1]

(* ======================= properties: the script ======================== *)
\* the lines of c from index b on
RECURSIVE LinesFrom(_, _)
LinesFrom(c, b) ==
    IF b > Len(c) THEN <<>>
    ELSE LET k == IF \E i \in b..Len(c) : c[i] = "\n"
                  THEN CHOOSE i \in b..Len(c) :
                           c[i] = "\n" /\ \A j \in b..(i - 1) : c[j] # "\n"
                  ELSE Len(c)
         IN  <<SubSeq(c, b, k)>> \o LinesFrom(c, k + 1)

\* the lines of a text: each ends with its newline, but for an unfinished last
Lines(c) == LinesFrom(c, 1)

\* line n of the lines ls, "" past their end
LineOf(ls, n) == IF n \in 1..Len(ls) THEN ls[n] ELSE <<>>

\* line n of the input
InputLine(n) == LineOf(Lines(orig), n)

Sixteen == [i \in 1..16 |-> " "]
TripleQuote == Sixteen \o <<"\"", "\"", "\"", "\n">>
UrlPattern == Sixteen \o <<"\"", "h", "t", "t", "p">>
MatchesUrl(l) == Len(l) >= Len(UrlPattern) /\ SubSeq(l, 1, Len(UrlPattern)) = UrlPattern

\* the answer a is an HTTP 404 / a failure of the request other than a 404
Is404(a) == a.raised /\ a.exc = "HTTPError" /\ a.code = 404
IsFailure(a) == a.raised /\ ~(a.exc = "HTTPError" /\ a.code = 404)
IsHttpError(a) == a.raised /\ a.exc = "HTTPError" /\ a.code # 404

\* request k of the run got a body / a 404 / a failure other than a 404
GotBody(k) == ~log[k].raised
Got404(k) == Is404(log[k])
GotError(k) == IsFailure(log[k])

\* the entry of the output buffer that holds the data line of request k's block
DataAt(k) == log[k].at + 2

\* this step makes a request (the log grows by one entry)
Requests == Len(log') = Len(log) + 1
Answer == log'[Len(log')]

\* C1: for every block whose fetch returned a body, the empty one included, the
\* data line written is 16 spaces + the body with every backslash doubled + a
\* newline.
C1_BodyReplacesData ==
    pc = "exited" =>
        /\ disk = Flatten(newLines)
        /\ \A k \in 1..Len(log) :
             GotBody(k) =>
                newLines[DataAt(k)] = Sixteen \o Replace(log[k].body) \o <<"\n">>

\* C2: a block whose fetch got a 404 keeps its data line as it was in the
\* input; the 404 does not abort the run, which goes on to the block's lines, and
\* a run that reaches the end of the input has taken every line and written the
\* file.
C2_NotFoundKeepsData ==
    /\ [](pc = "exited" =>
            /\ disk = Flatten(newLines)
            /\ Len(newLines) = Len(Lines(orig)))
    /\ [](LET in == Lines(orig) IN
          \A k \in 1..Len(log) :
            (Got404(k) /\ Len(newLines) >= DataAt(k))
               => newLines[DataAt(k)] = LineOf(in, DataAt(k)))
    /\ [][(Requests /\ Is404(Answer))
             => (pc' = "open" /\ error' = "none" /\ disk' = disk)]_vars

C2_Witness ==
    /\ pc = "exited"
    /\ Len(log) = 2
    /\ Got404(1) /\ GotBody(2) /\ log[2].body # <<>>
    /\ newLines[DataAt(1)] = OldLine
    /\ disk # orig

\* C3: when the line read as the opening or the closing delimiter of a block is
\* not 16 spaces + three double quotes + newline (the end of the input included),
\* the run aborts, and from then on the file is the original input and is never
\* opened for writing.
C3_DelimiterMismatchAborts ==
    /\ [][(pc \in {"open", "close"} /\ ReadLine(disk, pos) # TripleQuote)
             => (pc' = "aborted" /\ error' = "AssertionError")]_vars
    /\ [](pc = "aborted" => (disk = orig /\ writeOpens = 0 /\ file = "r"))
    /\ [][pc = "aborted" => (pc' = "aborted" /\ disk' = disk)]_vars

C3_Witness ==
    /\ pc = "aborted" /\ error = "AssertionError"
    /\ Len(log) = 2
    /\ Len(newLines) = 7
    /\ InputLine(8) # <<>>
    /\ disk = orig

\* C4: a fetch that fails with an HTTP error other than 404 aborts the run at
\* that block: it is the last request of the run (no later fetch, no retry) and
\* the file stays the original input.
C4_HttpErrorAborts ==
    /\ [][(Requests /\ IsHttpError(Answer))
             => (pc' = "aborted" /\ error' = "HTTPError" /\ disk' = orig)]_vars
    /\ [](\A k \in 1..Len(log) :
            GotError(k) => (/\ k = Len(log)
                            /\ pc = "aborted"
                            /\ disk = orig
                            /\ writeOpens = 0))
    /\ [][pc = "aborted" => log' = log]_vars

C4_Witness ==
    /\ pc = "aborted" /\ error = "HTTPError"
    /\ Len(log) = 2 /\ IsHttpError(log[2]) /\ GotBody(1)
    /\ Len(newLines) < Len(Lines(orig))
    /\ disk = orig

\* the entries of the output buffer that hold data lines of blocks
DataEntries == {DataAt(k) : k \in 1..Len(log)}

\* C8: in a run that completes, the written file has as many line entries as
\* the input has lines, in the same order, and every entry that is not the data
\* line of a block equals the input line at its position.
C8_OtherLinesUntouched ==
    pc = "exited" =>
        /\ disk = Flatten(newLines)
        /\ LET in == Lines(orig) IN
             /\ Len(newLines) = Len(in)
             /\ \A i \in 1..Len(newLines) :
                  i \notin DataEntries => newLines[i] = LineOf(in, i)

C8_Witness ==
    /\ pc = "exited"
    /\ Len(log) = 2 /\ GotBody(1) /\ log[1].body # <<>>
    /\ Len(newLines) = 8
    /\ newLines[DataAt(1)] # InputLine(DataAt(1))
    /\ \A i \in {1, 2, 4, 5, 6, 8} : newLines[i] = InputLine(i)

\* the line about to be read as a delimiter is not the delimiter
Mismatch == pc \in {"open", "close"} /\ ReadLine(disk, pos) # TripleQuote

Terminated == pc \in {"exited", "aborted"}

\* C9: every run terminates; it aborts exactly at a delimiter mismatch or at an
\* HTTP failure other than 404, and exits normally otherwise; a normal exit has
\* opened the file for writing exactly once, after the last input line was read
\* and the read handle closed, and has written the whole output buffer; an
\* aborted run never opens the file for writing.
C9_Termination ==
    /\ <>Terminated
    /\ [][(pc # "aborted" /\ pc' = "aborted")
             <=> (Mismatch \/ (Requests /\ IsFailure(Answer)))]_vars
    /\ [](pc = "exited" =>
            /\ error = "none"
            /\ \A k \in 1..Len(log) : ~GotError(k)
            /\ writeOpens = 1
            /\ file = "closed"
            /\ disk = Flatten(newLines))
    /\ [](pc = "aborted" => (error # "none" /\ writeOpens = 0 /\ file = "r"))
    /\ [][writeOpens' # writeOpens
             => (/\ writeOpens = 0 /\ writeOpens' = 1
                 /\ file = "closed" /\ file' = "w"
                 /\ disk = orig /\ pos = Len(orig))]_vars
    /\ [][pc = "exited" => pc' = "exited"]_vars

C9_Witness ==
    /\ pc = "exited"
    /\ writeOpens = 1 /\ file = "closed"
    /\ Len(log) = 2 /\ Got404(2)
    /\ disk = Flatten(newLines) /\ disk # orig

\* the entries of the output buffer that hold the three lines after a url line
Inside(i) == \E k \in 1..Len(log) : i \in (log[k].at + 1)..(log[k].at + 3)

\* how many characters the first n lines of the input take
RECURSIVE LengthOf(_, _)
LengthOf(ls, n) == IF n = 0 THEN 0 ELSE Len(ls[n]) + LengthOf(ls, n - 1)

\* C10: the requests of a run are, in file order and one at a time, one for
\* each line read at top level that starts with 16 spaces + a double quote +
\* "http"; a request is made before its block's opening delimiter is read, asks
\* for the line minus its first 17 and last 2 characters with the API key
\* applied, and the three lines read after a url line make no request.
C10_FetchPerUrlLine ==
    /\ [](LET in == Lines(orig) IN
          /\ \A i \in 1..Len(newLines) :
               (~Inside(i) /\ MatchesUrl(LineOf(in, i)))
                  => \/ \E k \in 1..Len(log) : log[k].at = i
                     \/ (i = Len(newLines) /\ pc = "fetch")
          /\ \A k \in 1..Len(log) :
               LET l == LineOf(in, log[k].at) IN
               /\ MatchesUrl(l)
               /\ log[k].url = addApiKey(apiKey, SubSeq(l, 18, Len(l) - 2))
               /\ k > 1 => log[k].at > log[k - 1].at + 3)
    /\ [][log' # log
             => (/\ pc = "fetch"
                 /\ Requests /\ SubSeq(log', 1, Len(log)) = log
                 /\ Answer.at = Len(newLines)
                 /\ pos = LengthOf(Lines(orig), Answer.at)
                 /\ pos' = pos /\ newLines' = newLines)]_vars
    /\ [][(pc = "scan" /\ MatchesUrl(ReadLine(disk, pos)))
             => (pc' = "fetch" /\ log' = log)]_vars

C10_Witness ==
    /\ pc = "exited"
    /\ ~apiKey.none
    /\ Len(log) = 2
    /\ log[1].at = 1 /\ log[2].at = 5
    /\ log[1].url # log[2].url
    /\ MatchesUrl(InputLine(7))

====
